---------------------------- MODULE Spec2Model ----------------------------
(***************************************************************************)
(* Post-record store of tg_content_app.py: the posts table, the five       *)
(* mutating operations (add_post, update_post, update_status,              *)
(* update_published, delete_post), load_data, and generate_ideas.          *)
(*                                                                         *)
(* Text is modelled as sequences of atoms.  Cyrillic literals of the       *)
(* source are transliterated: "marta" is 'марта', "g." is 'г.',            *)
(* "Ne gotov" is 'Не готов', "Gotov" is 'Готов', "Net" is 'Нет',           *)
(* "Da" is 'Да', "Nazvanie" is 'Название', "Dedlayn" is 'Дедлайн'.         *)
(***************************************************************************)
EXTENDS Integers, Sequences, FiniteSets, TLC

VARIABLES
    posts,      \* rows of table posts (committed state of tg_data.db)
    seq,        \* sqlite_sequence value of posts (AUTOINCREMENT high-water mark)
    handles,    \* sqlite3 connections opened and not closed
    ret,        \* outcome of the last operation: what it returned, or "raised"
    client,     \* module global client: "none" or "hf"
    ideas       \* input and output of the last generate_ideas call

vars == <<posts, seq, handles, ret, client, ideas>>

storeVars == <<posts, seq, handles>>

-----------------------------------------------------------------------------
(* Bounds *)

MaxRows == 2        \* rows held by the table at once
MaxId == 2          \* largest id the model lets the table assign or hold
MaxHandles == 1     \* abandoned connections alive at once
MaxSegs == 7        \* pieces a text_generation response is put together from
PromptLen == 1      \* characters of the prompt around the topic

-----------------------------------------------------------------------------
(* Text: a date string is a sequence of atoms; an atom is a run of digits, *)
(* a word, or one blank.                                                   *)

Num(v, w) == [k |-> "num", v |-> v, w |-> w, s |-> ""]
Word(s) == [k |-> "word", v |-> 0, w |-> 0, s |-> s]
SP == [k |-> "sp", v |-> 0, w |-> 0, s |-> " "]
GMark == Word("g.")

RECURSIVE Pow10(_)
Pow10(n) == IF n = 0 THEN 1 ELSE 10 * Pow10(n - 1)

\* str.replace(' г.', ''): every occurrence, left to right
RECURSIVE RemoveMarker(_)
RemoveMarker(s) ==
    IF s = <<>> THEN <<>>
    ELSE IF Len(s) >= 2 /\ s[1] = SP /\ s[2] = GMark
         THEN RemoveMarker(SubSeq(s, 3, Len(s)))
         ELSE <<s[1]>> \o RemoveMarker(Tail(s))

\* str.split(): maximal runs of non-blank atoms (covers the .strip() too)
RECURSIVE SplitFrom(_, _)
SplitFrom(s, cur) ==
    IF s = <<>> THEN (IF cur = <<>> THEN <<>> ELSE <<cur>>)
    ELSE IF s[1] = SP
         THEN (IF cur = <<>> THEN <<>> ELSE <<cur>>) \o SplitFrom(Tail(s), <<>>)
         ELSE SplitFrom(Tail(s), Append(cur, s[1]))

Split(s) == SplitFrom(s, <<>>)

\* int(token): succeeds on a token made of digits only
IsInt(tok) == tok # <<>> /\ \A i \in 1..Len(tok) : tok[i].k = "num"

RECURSIVE IntOf(_)
IntOf(tok) ==
    IF tok = <<>> THEN 0
    ELSE LET n == Len(tok)
         IN IntOf(SubSeq(tok, 1, n - 1)) * Pow10(tok[n].w) + tok[n].v

month_names ==
    [yanvarya |-> 1, fevralya |-> 2, marta |-> 3, aprelya |-> 4, maya |-> 5,
     iyunya |-> 6, iyulya |-> 7, avgusta |-> 8, sentyabrya |-> 9,
     oktyabrya |-> 10, noyabrya |-> 11, dekabrya |-> 12]

IsMonth(tok) == Len(tok) = 1 /\ tok[1].k = "word" /\ tok[1].s \in DOMAIN month_names

-----------------------------------------------------------------------------
(* datetime(year, month, day) and strftime('%A') *)

IsLeap(y) == y % 4 = 0 /\ (y % 100 # 0 \/ y % 400 = 0)

DaysInMonth(y, m) ==
    IF m = 2 THEN (IF IsLeap(y) THEN 29 ELSE 28)
    ELSE IF m \in {4, 6, 9, 11} THEN 30 ELSE 31

RECURSIVE DaysBeforeMonth(_, _)
DaysBeforeMonth(y, m) ==
    IF m = 1 THEN 0 ELSE DaysBeforeMonth(y, m - 1) + DaysInMonth(y, m - 1)

DaysBeforeYear(y) ==
    LET p == y - 1 IN p * 365 + (p \div 4) - (p \div 100) + (p \div 400)

ValidYMD(y, m, d) ==
    /\ y >= 1 /\ y <= 9999
    /\ m >= 1 /\ m <= 12
    /\ d >= 1 /\ d <= DaysInMonth(y, m)

ToOrdinal(y, m, d) == DaysBeforeYear(y) + DaysBeforeMonth(y, m) + d

\* mutant of Weekday: the ordinal is reduced without the shift to Monday
Weekday_NoShift(y, m, d) == ToOrdinal(y, m, d) % 7

\* datetime.weekday(): Monday is 0
Weekday(y, m, d) == (ToOrdinal(y, m, d) + 6) % 7

DayNamesEn ==
    <<"Monday", "Tuesday", "Wednesday", "Thursday", "Friday", "Saturday", "Sunday">>

StrftimeA(y, m, d) == DayNamesEn[Weekday(y, m, d) + 1]

days_ru ==
    [Monday |-> "Ponedelnik", Tuesday |-> "Vtornik", Wednesday |-> "Sreda",
     Thursday |-> "Chetverg", Friday |-> "Pyatnitsa", Saturday |-> "Subbota",
     Sunday |-> "Voskresenye"]

DayRu(y, m, d) ==
    LET en == StrftimeA(y, m, d)
    IN IF en \in DOMAIN days_ru THEN days_ru[en] ELSE "Neizvestnyy den"

\* mutant of ParseDate: a month name missing from the table counts as January
ParseDate_DefaultMonth(date_str) ==
    LET date_parts == Split(RemoveMarker(date_str))
    IN IF Len(date_parts) # 3 THEN [ok |-> FALSE, day_ru |-> ""]
       ELSE IF ~IsInt(date_parts[1]) THEN [ok |-> FALSE, day_ru |-> ""]
       ELSE IF ~IsInt(date_parts[3]) THEN [ok |-> FALSE, day_ru |-> ""]
       ELSE LET day == IntOf(date_parts[1])
                year == IntOf(date_parts[3])
                month == IF IsMonth(date_parts[2])
                         THEN month_names[date_parts[2][1].s] ELSE 1
            IN IF ~ValidYMD(year, month, day) THEN [ok |-> FALSE, day_ru |-> ""]
               ELSE [ok |-> TRUE, day_ru |-> DayRu(year, month, day)]

\* the try-block of add_post up to the INSERT: ok = FALSE when a ValueError is raised
ParseDate(date_str) ==
    LET date_parts == Split(RemoveMarker(date_str))
    IN IF Len(date_parts) # 3 THEN [ok |-> FALSE, day_ru |-> ""]
       ELSE IF ~IsInt(date_parts[1]) THEN [ok |-> FALSE, day_ru |-> ""]
       ELSE IF ~IsInt(date_parts[3]) THEN [ok |-> FALSE, day_ru |-> ""]
       ELSE IF ~IsMonth(date_parts[2]) THEN [ok |-> FALSE, day_ru |-> ""]
       ELSE LET day == IntOf(date_parts[1])
                year == IntOf(date_parts[3])
                month == month_names[date_parts[2][1].s]
            IN IF ~ValidYMD(year, month, day) THEN [ok |-> FALSE, day_ru |-> ""]
               ELSE [ok |-> TRUE, day_ru |-> DayRu(year, month, day)]

-----------------------------------------------------------------------------
(* Table posts.  A row carries the 14 columns of CREATE TABLE and one      *)
(* history field, ins, that remembers the id and day_of_week written by    *)
(* the INSERT that created the row; no operation reads ins.                *)

Columns ==
    {"id", "date", "day_of_week", "time", "title", "content_type", "format",
     "rubrika", "description", "tz_text", "tz_visual", "deadline", "status",
     "published"}

DefaultStatus == "Ne gotov"
DefaultPublished == "Net"

Max(a, b) == IF a >= b THEN a ELSE b

RECURSIVE MaxRowid(_)
MaxRowid(rows) ==
    IF rows = {} THEN 0
    ELSE LET r == CHOOSE x \in rows : TRUE
         IN Max(r.id, MaxRowid(rows \ {r}))

\* id INTEGER PRIMARY KEY AUTOINCREMENT: one more than the largest rowid ever seen
NextRowid(rows, sq) == Max(sq, MaxRowid(rows)) + 1

\* the row written by the INSERT statement of add_post
InsertedRow(id, date_str, day_ru, f) ==
    [id |-> id, date |-> date_str, day_of_week |-> day_ru, time |-> f.time,
     title |-> f.title, content_type |-> f.content_type, format |-> f.format,
     rubrika |-> f.rubrika, description |-> f.description, tz_text |-> f.tz_text,
     tz_visual |-> f.tz_visual, deadline |-> f.deadline,
     status |-> DefaultStatus, published |-> DefaultPublished,
     ins |-> [id |-> id, day_of_week |-> day_ru]]

\* a value bound to a "?" placeholder: Python str or int
TextVal(s) == [t |-> "text", n |-> 0, s |-> s]
IntVal(n) == [t |-> "int", n |-> n, s |-> ""]

\* decimal text of a small integer (TEXT affinity turns a bound integer into text)
IntText(n) == <<"0", "1", "2", "3", "4", "5", "6", "7", "8", "9">>[n + 1]

Stored(c, val) ==
    IF c = "id" THEN val.n
    ELSE IF val.t = "text" THEN val.s ELSE IntText(val.n)

\* mutant of SetColumn: the statement has no WHERE clause
SetColumn_NoWhere(rows, c, val, row_id) ==
    {[r EXCEPT ![c] = Stored(c, val)] : r \in rows}

\* "UPDATE posts SET <c> = ? WHERE id = ?"
SetColumn(rows, c, val, row_id) ==
    {IF r.id = row_id THEN [r EXCEPT ![c] = Stored(c, val)] ELSE r : r \in rows}

\* the same statement fails on the primary key when the row exists and the new
\* id is not an integer (datatype mismatch) or belongs to another row (UNIQUE)
IdRejected(rows, val, row_id) ==
    /\ \E r \in rows : r.id = row_id
    /\ \/ val.t # "int"
       \/ \E r \in rows : r.id # row_id /\ r.id = val.n

\* mutant of DeleteRows: the statement has no WHERE clause
DeleteRows_NoWhere(rows, row_id) == {}

\* "DELETE FROM posts WHERE id = ?"
DeleteRows(rows, row_id) == {r \in rows : r.id # row_id}

-----------------------------------------------------------------------------
(* Field names handed to update_post are sequences of characters.          *)

\* str.lower() on one character (the capitals that occur in the field names used)
LowerCh(c) ==
    CASE c = "D" -> "d" [] c = "I" -> "i" [] c = "O" -> "o" [] c = "W" -> "w"
      [] c = "S" -> "s" [] c = "T" -> "t" [] c = "N" -> "n"
      [] OTHER -> c

\* col.lower().replace(' ', '_')
LowerUnderscore(col) ==
    [i \in 1..Len(col) |-> IF col[i] = " " THEN "_" ELSE LowerCh(col[i])]

L_Nazvanie == <<"N", "a", "z", "v", "a", "n", "i", "e">>
L_TipKontenta == <<"T", "i", "p", " ", "k", "o", "n", "t", "e", "n", "t", "a">>
L_Format == <<"F", "o", "r", "m", "a", "t">>
L_Rubrika == <<"R", "u", "b", "r", "i", "k", "a">>
L_Opisanie == <<"O", "p", "i", "s", "a", "n", "i", "e">>
L_TZTekst == <<"T", "Z", "(", "T", "e", "k", "s", "t", ")">>
L_TZVizual == <<"T", "Z", "(", "V", "i", "z", "u", "a", "l", ")">>
L_Dedlayn == <<"D", "e", "d", "l", "a", "y", "n">>

\* the dict col_map of update_post, as a set of (label, column) pairs
col_map ==
    {<<L_Nazvanie, "title">>, <<L_TipKontenta, "content_type">>,
     <<L_Format, "format">>, <<L_Rubrika, "rubrika">>,
     <<L_Opisanie, "description">>, <<L_TZTekst, "tz_text">>,
     <<L_TZVizual, "tz_visual">>, <<L_Dedlayn, "deadline">>}

\* spelling of each column of the table, to resolve a name that fell through col_map
ColumnSpelling ==
    {<<<<"i", "d">>, "id">>,
     <<<<"d", "a", "t", "e">>, "date">>,
     <<<<"d", "a", "y", "_", "o", "f", "_", "w", "e", "e", "k">>, "day_of_week">>,
     <<<<"t", "i", "m", "e">>, "time">>,
     <<<<"t", "i", "t", "l", "e">>, "title">>,
     <<<<"c", "o", "n", "t", "e", "n", "t", "_", "t", "y", "p", "e">>, "content_type">>,
     <<<<"f", "o", "r", "m", "a", "t">>, "format">>,
     <<<<"r", "u", "b", "r", "i", "k", "a">>, "rubrika">>,
     <<<<"d", "e", "s", "c", "r", "i", "p", "t", "i", "o", "n">>, "description">>,
     <<<<"t", "z", "_", "t", "e", "x", "t">>, "tz_text">>,
     <<<<"t", "z", "_", "v", "i", "s", "u", "a", "l">>, "tz_visual">>,
     <<<<"d", "e", "a", "d", "l", "i", "n", "e">>, "deadline">>,
     <<<<"s", "t", "a", "t", "u", "s">>, "status">>,
     <<<<"p", "u", "b", "l", "i", "s", "h", "e", "d">>, "published">>}

Lookup(table, key, default) ==
    IF \E e \in table : e[1] = key
    THEN (CHOOSE e \in table : e[1] = key)[2]
    ELSE default

\* sql_col = col_map.get(col, col.lower().replace(' ', '_')), resolved against
\* the table's columns; "?" stands for a name the table does not have
SqlCol(col) ==
    LET mapped == Lookup(col_map, col, "?")
    IN IF mapped # "?" THEN mapped
       ELSE Lookup(ColumnSpelling, LowerUnderscore(col), "?")

\* the for-loop of update_post, run on the connection's uncommitted view of
\* the table: rows after the statements, or raised when one of them fails
RECURSIVE RunUpdates(_, _, _)
RunUpdates(rows, row_id, updates) ==
    IF updates = <<>> THEN [raised |-> FALSE, rows |-> rows]
    ELSE LET sql_col == SqlCol(updates[1].col)
             val == updates[1].val
         IN IF sql_col = "?" THEN [raised |-> TRUE, rows |-> rows]
            ELSE IF sql_col = "id" /\ IdRejected(rows, val, row_id)
                 THEN [raised |-> TRUE, rows |-> rows]
                 ELSE RunUpdates(SetColumn(rows, sql_col, val, row_id),
                                 row_id, Tail(updates))

-----------------------------------------------------------------------------
(* Store operations *)

\* init_db: CREATE TABLE IF NOT EXISTS keeps an existing table as it is
InitDb ==
    /\ ret' = "None"
    /\ UNCHANGED <<posts, seq, handles, client, ideas>>

\* the columns of the DataFrame returned by load_data
LoadedRow(r) ==
    [ID |-> r.id, Date |-> r.date, Day_of_week |-> r.day_of_week, Time |-> r.time,
     Title |-> r.title, Content_type |-> r.content_type, Format |-> r.format,
     Rubrika |-> r.rubrika, Description |-> r.description, Tz_text |-> r.tz_text,
     Tz_visual |-> r.tz_visual, Deadline |-> r.deadline, Status |-> r.status,
     Published |-> r.published]

\* the records of load_data's DataFrame (row order left out)
load_data(rows) == {LoadedRow(r) : r \in rows}

LoadData ==
    /\ ret' = "df"
    /\ UNCHANGED <<posts, seq, handles, client, ideas>>

AddPost(date_str, f) ==
    LET parsed == ParseDate(date_str)
        last_id == NextRowid(posts, seq)
    IN /\ IF parsed.ok
          THEN /\ Cardinality(posts) < MaxRows
               /\ last_id <= MaxId
               /\ posts' = posts \cup {InsertedRow(last_id, date_str, parsed.day_ru, f)}
               /\ seq' = last_id
               /\ ret' = "True"
          ELSE /\ ret' = "False"
               /\ UNCHANGED <<posts, seq>>
       /\ UNCHANGED <<handles, client, ideas>>

UpdatePost(row_id, updates) ==
    LET res == RunUpdates(posts, row_id, updates)
    IN /\ IF res.raised
          THEN /\ handles < MaxHandles
               /\ handles' = handles + 1
               /\ ret' = "raised"
               /\ UNCHANGED posts
          ELSE /\ posts' = res.rows
               /\ ret' = "None"
               /\ UNCHANGED handles
       /\ UNCHANGED <<seq, client, ideas>>

\* mutant of UpdateStatus: the statement names the published column
UpdateStatus_WrongColumn(row_id, status) ==
    /\ posts' = SetColumn(posts, "published", TextVal(status), row_id)
    /\ ret' = "None"
    /\ UNCHANGED <<seq, handles, client, ideas>>

UpdateStatus(row_id, status) ==
    /\ posts' = SetColumn(posts, "status", TextVal(status), row_id)
    /\ ret' = "None"
    /\ UNCHANGED <<seq, handles, client, ideas>>

UpdatePublished(row_id, published) ==
    /\ posts' = SetColumn(posts, "published", TextVal(published), row_id)
    /\ ret' = "None"
    /\ UNCHANGED <<seq, handles, client, ideas>>

DeletePost(row_id) ==
    /\ posts' = DeleteRows(posts, row_id)
    /\ ret' = "None"
    /\ UNCHANGED <<seq, handles, client, ideas>>

\* the runtime reclaims a connection object abandoned by a raising update_post;
\* closing it discards whatever it had not committed
Finalize ==
    /\ handles > 0
    /\ handles' = handles - 1
    /\ UNCHANGED <<posts, seq, ret, client, ideas>>

-----------------------------------------------------------------------------
(* Inputs *)

D_15Mar2024 == <<Num(15, 2), SP, Word("marta"), SP, Num(2024, 4), SP, GMark>>
D_29Feb2024 == <<Num(29, 2), SP, Word("fevralya"), SP, Num(2024, 4), SP, GMark>>
D_TwoTokens == <<Num(15, 2), SP, Num(2024, 4)>>
D_FourTokens ==
    <<Num(15, 2), SP, Word("marta"), SP, Num(2024, 4), SP, GMark, SP, Word("utro")>>
D_English == <<Num(15, 2), SP, Word("March"), SP, Num(2024, 4), SP, GMark>>
D_BadDay == <<Word("xx"), SP, Word("marta"), SP, Num(2024, 4), SP, GMark>>
D_BadYear == <<Num(15, 2), SP, Word("marta"), SP, Word("yyyy"), SP, GMark>>
D_31Feb2024 == <<Num(31, 2), SP, Word("fevralya"), SP, Num(2024, 4), SP, GMark>>

BadDateStrs ==
    {D_TwoTokens, D_FourTokens, D_English, D_BadDay, D_BadYear, D_31Feb2024}

F_Interview ==
    [time |-> "10:00", title |-> "Intervyu s gruppoy", content_type |-> "Informatsionnyy",
     format |-> "Intervyu", rubrika |-> "Gosti", description |-> "opisanie 1",
     tz_text |-> "tekst 1", tz_visual |-> "vizual 1", deadline |-> "14 March 2024 g."]

F_Memes ==
    [time |-> "18:30", title |-> "Memy nedeli", content_type |-> "Razvlekatelnyy",
     format |-> "Memy", rubrika |-> "Yumor", description |-> "opisanie 2",
     tz_text |-> "tekst 2", tz_visual |-> "vizual 2", deadline |-> "28 February 2024 g."]

RowIds == 1..MaxId

K_ID == <<"I", "D">>
K_DayOfWeek == <<"D", "a", "y", " ", "o", "f", " ", "w", "e", "e", "k">>
K_Bogus == <<"b", "o", "g", "u", "s">>

E_Title == [col |-> L_Nazvanie, val |-> TextVal("New")]
E_DayOfWeek == [col |-> K_DayOfWeek, val |-> TextVal("Prazdnik")]
E_Bogus == [col |-> K_Bogus, val |-> TextVal("x")]
E_Id(n) == [col |-> K_ID, val |-> IntVal(n)]

\* inputs of the planning workflow: two posts and every kind of malformed
\* date, the status and published values of the buttons and a status that is
\* none of them, and an edit that names a column the table does not have
WorkflowInputs ==
    [adds |-> {<<D_15Mar2024, F_Interview>>, <<D_29Feb2024, F_Memes>>}
              \cup {<<d, F_Interview>> : d \in BadDateStrs},
     statuses |-> {"Ne gotov", "Gotov", "Chernovik"},
     publisheds |-> {"Net", "Da"},
     dicts |-> {<<E_Title, E_Bogus>>}]

\* inputs that exercise update_post: dicts (in insertion order) keyed by a
\* display label, by column names and by an unknown name
ColumnInputs ==
    [adds |-> {<<D_15Mar2024, F_Interview>>, <<D_TwoTokens, F_Interview>>},
     statuses |-> {"Ne gotov"},
     publisheds |-> {"Net"},
     dicts |-> {<<E_Title>>, <<E_DayOfWeek>>, <<E_Bogus>>, <<E_Title, E_Bogus>>,
                <<E_Id(MaxId), E_Title>>}
               \cup {<<E_Id(n)>> : n \in RowIds}]

-----------------------------------------------------------------------------
(* Specifications of the store *)

NoIdeas ==
    [topic |-> <<>>, service |-> "returns", text |-> <<>>, called |-> FALSE,
     result |-> <<>>]

Init ==
    /\ posts = {}
    /\ seq = 0
    /\ handles = 0
    /\ ret = "None"
    /\ client = "none"
    /\ ideas = NoIdeas

StoreNext(in) ==
    \/ InitDb
    \/ LoadData
    \/ \E a \in in.adds : AddPost(a[1], a[2])
    \/ \E i \in RowIds, u \in in.dicts : UpdatePost(i, u)
    \/ \E i \in RowIds, s \in in.statuses : UpdateStatus(i, s)
    \/ \E i \in RowIds, p \in in.publisheds : UpdatePublished(i, p)
    \/ \E i \in RowIds : DeletePost(i)
    \/ Finalize

Next == StoreNext(WorkflowInputs)

Spec == Init /\ [][Next]_vars

NextColumns == StoreNext(ColumnInputs)

SpecColumns == Init /\ [][NextColumns]_vars

-----------------------------------------------------------------------------
(* generate_ideas.  Strings are sequences of characters; a fixed message   *)
(* of the source is one atom.                                              *)

Unavailable == <<"Generator nedostupen. Nastroy HF_TOKEN v Secrets.">>
GenerationError == <<"Oshibka generatsii.">>
HfErrorPrefix == "Oshibka HF: "

MaxIdeas == 5

IsSpace(c) == c \in {" ", "\n"}

RECURSIVE LStrip(_)
LStrip(s) == IF s # <<>> /\ IsSpace(s[1]) THEN LStrip(Tail(s)) ELSE s

RECURSIVE RStrip(_)
RStrip(s) ==
    IF s # <<>> /\ IsSpace(s[Len(s)]) THEN RStrip(SubSeq(s, 1, Len(s) - 1)) ELSE s

\* str.strip()
Strip(s) == RStrip(LStrip(s))

\* str.split('\n'): one more piece than there are newlines
RECURSIVE SplitLinesFrom(_, _)
SplitLinesFrom(s, cur) ==
    IF s = <<>> THEN <<cur>>
    ELSE IF s[1] = "\n" THEN <<cur>> \o SplitLinesFrom(Tail(s), <<>>)
         ELSE SplitLinesFrom(Tail(s), Append(cur, s[1]))

SplitLines(s) == SplitLinesFrom(s, <<>>)

\* [line.strip() for line in lines if line.strip()]
RECURSIVE StripNonEmpty(_)
StripNonEmpty(lines) ==
    IF lines = <<>> THEN <<>>
    ELSE LET l == Strip(lines[1])
         IN (IF l = <<>> THEN <<>> ELSE <<l>>) \o StripNonEmpty(Tail(lines))

\* mutant of Take: the slice is left out
Take_NoSlice(lst, n) == lst

\* lst[:n]
Take(lst, n) == SubSeq(lst, 1, IF Len(lst) < n THEN Len(lst) ELSE n)

\* '\n'.join(lst)
RECURSIVE JoinLines(_)
JoinLines(lst) ==
    IF lst = <<>> THEN <<>>
    ELSE IF Len(lst) = 1 THEN lst[1]
         ELSE lst[1] \o <<"\n">> \o JoinLines(Tail(lst))

\* len(prompt): the f-string of generate_ideas with the topic spliced in
PromptLength(topic) == PromptLen + Len(topic)

\* response[len(prompt):]
SliceFrom(s, n) == IF n >= Len(s) THEN <<>> ELSE SubSeq(s, n + 1, Len(s))

\* the try-block of generate_ideas on a response that was returned
IdeasFrom(topic, response) ==
    LET ideas_text == Strip(SliceFrom(response, PromptLength(topic)))
        ideas_list == Take(StripNonEmpty(SplitLines(ideas_text)), MaxIdeas)
    IN IF ideas_list # <<>> THEN JoinLines(ideas_list) ELSE GenerationError

\* generate_ideas(topic); service and text say what client.text_generation does:
\* it returns text, or raises an exception whose str() is text
generate_ideas(cl, topic, service, text) ==
    IF cl = "none" THEN Unavailable
    ELSE IF service = "raises" THEN <<HfErrorPrefix>> \o text \o <<".">>
         ELSE IdeasFrom(topic, text)

GenerateIdeas ==
    /\ ~ideas.called
    /\ ideas' = [ideas EXCEPT !.called = TRUE,
                              !.result = generate_ideas(client, ideas.topic,
                                                        ideas.service, ideas.text)]
    /\ UNCHANGED <<posts, seq, handles, ret, client>>

RECURSIVE Flatten(_)
Flatten(ss) == IF ss = <<>> THEN <<>> ELSE ss[1] \o Flatten(Tail(ss))

Pieces == {<<"a">>, <<" ">>, <<"\n">>, <<"a", "\n">>}

Responses == {Flatten(ss) : ss \in UNION {[1..n -> Pieces] : n \in 0..MaxSegs}}

ErrorTexts == {<<"timeout">>, <<"401", "\n", "Unauthorized">>}

Topics == {<<>>, <<"m">>}

StoredPost == InsertedRow(1, D_15Mar2024, ParseDate(D_15Mar2024).day_ru, F_Interview)

InitGen ==
    /\ \/ posts = {} /\ seq = 0
       \/ posts = {StoredPost} /\ seq = 1
    /\ handles = 0
    /\ ret = "None"
    /\ client \in {"none", "hf"}
    /\ \E t \in Topics :
          \/ \E r \in Responses :
                ideas = [topic |-> t, service |-> "returns", text |-> r,
                         called |-> FALSE, result |-> <<>>]
          \/ \E e \in ErrorTexts :
                ideas = [topic |-> t, service |-> "raises", text |-> e,
                         called |-> FALSE, result |-> <<>>]

NextGen == GenerateIdeas

SpecGen == InitGen /\ [][NextGen]_vars

-----------------------------------------------------------------------------
(* Properties *)

RowOf(rows, id) == {r \in rows : r.id = id}

\* rows r and r2 agree on every column outside cols, and on their history
SameExcept(r, r2, cols) ==
    /\ \A c \in Columns \ cols : r2[c] = r[c]
    /\ r2.ins = r.ins

\* every row with an id other than id is in rows2 as it was in rows
OthersKept(rows, rows2, id) == \A r \in rows : r.id # id => r \in rows2

\* C1: no two records share an id, and every record has the id it was
\* assigned when it was inserted.
C1_IdUniqueAndImmutable ==
    /\ \A r1, r2 \in posts : r1.id = r2.id => r1 = r2
    /\ \A r \in posts : r.id = r.ins.id

\* C2: the status of every stored record is one of 'Не готов' / 'Готов' and
\* its published flag is one of 'Нет' / 'Да'.
C2_StatusPublishedEnumerated ==
    \A r \in posts :
        /\ r.status \in {"Ne gotov", "Gotov"}
        /\ r.published \in {"Net", "Da"}

\* a date string of the form '<day> <month-name> <year> г.' that names a
\* calendar date
IsCalendarDateString(d) ==
    /\ Len(d) = 7
    /\ d[1].k = "num" /\ d[2] = SP /\ d[3].k = "word" /\ d[4] = SP
    /\ d[5].k = "num" /\ d[6] = SP /\ d[7] = GMark
    /\ d[3].s \in DOMAIN month_names
    /\ d[5].v \in 1..9999
    /\ LET m == month_names[d[3].s]
           y == d[5].v
           last == IF m = 2
                   THEN (IF (y % 4 = 0 /\ y % 100 # 0) \/ y % 400 = 0 THEN 29 ELSE 28)
                   ELSE IF m \in {4, 6, 9, 11} THEN 30 ELSE 31
       IN d[1].v \in 1..last

\* the weekday label of a calendar date, by Sakamoto's method (Sunday first)
WeekdayLabel(y, m, d) ==
    LET t == <<0, 3, 2, 5, 0, 3, 5, 1, 4, 6, 2, 4>>
        yy == IF m < 3 THEN y - 1 ELSE y
        w == (yy + (yy \div 4) - (yy \div 100) + (yy \div 400) + t[m] + d) % 7
    IN <<"Voskresenye", "Ponedelnik", "Vtornik", "Sreda", "Chetverg",
         "Pyatnitsa", "Subbota">>[w + 1]

CalendarAdds == {a \in WorkflowInputs.adds : IsCalendarDateString(a[1])}

\* C3: add_post with a valid '<day> <month-name> <year> г.' date leaves every
\* previous record as it was and adds exactly one record, whose fields are the
\* inputs, whose day of week is the weekday label of the date, whose status is
\* 'Не готов' and whose published flag is 'Нет'.
C3_InsertAddsOneRecord ==
    [][\A a \in CalendarAdds :
          AddPost(a[1], a[2]) =>
              \E n \in load_data(posts') \ load_data(posts) :
                  /\ load_data(posts') = load_data(posts) \cup {n}
                  /\ posts \subseteq posts'
                  /\ Cardinality(posts') = Cardinality(posts) + 1
                  /\ n.Date = a[1] /\ n.Time = a[2].time /\ n.Title = a[2].title
                  /\ n.Content_type = a[2].content_type /\ n.Format = a[2].format
                  /\ n.Rubrika = a[2].rubrika /\ n.Description = a[2].description
                  /\ n.Tz_text = a[2].tz_text /\ n.Tz_visual = a[2].tz_visual
                  /\ n.Deadline = a[2].deadline
                  /\ n.Day_of_week =
                         WeekdayLabel(a[1][5].v, month_names[a[1][3].s], a[1][1].v)
                  /\ n.Status = "Ne gotov" /\ n.Published = "Net"
                  /\ ret' = "True"]_vars

\* an insert succeeded into a store that already held a record
C3_Witness == ret = "True" /\ Cardinality(posts) = 2

\* the date string does not split into exactly 3 tokens once the marker is
\* removed, or its day or year token is not an integer, or its month token is
\* not in the month table
IsMalformedDateString(d) ==
    LET parts == Split(RemoveMarker(d))
    IN \/ Len(parts) # 3
       \/ ~IsInt(parts[1])
       \/ ~IsInt(parts[3])
       \/ ~(Len(parts[2]) = 1 /\ parts[2][1].s \in DOMAIN month_names)

MalformedAdds == {a \in WorkflowInputs.adds : IsMalformedDateString(a[1])}

\* C4: add_post with a malformed date string fails (returns False after
\* reporting the error) and the stored records are the same as before.
C4_MalformedDateRejected ==
    [][\A a \in MalformedAdds :
          AddPost(a[1], a[2]) =>
              /\ ret' = "False"
              /\ posts' = posts
              /\ seq' = seq]_vars

\* an insert was rejected while the store held a record
C4_Witness == ret = "False" /\ posts # {}

\* the column an entry of the sampled dicts names; none for the unknown name
NamedColumns(u) ==
    {c \in Columns : \E k \in DOMAIN u :
        \/ u[k].col = L_Nazvanie /\ c = "title"
        \/ u[k].col = K_DayOfWeek /\ c = "day_of_week"
        \/ u[k].col = K_ID /\ c = "id"}

NamesOnlyFields(u) == \A k \in DOMAIN u : u[k].col \in {L_Nazvanie, K_DayOfWeek, K_ID}

\* C5: update_post changes only the fields its mapping names and only in the
\* record with the given id; a mapping with only the title sets the title and
\* nothing else; for an id that is not stored the store is unchanged and no
\* error is raised.
C5_UpdateFrame ==
    [][\A i \in RowIds, u \in ColumnInputs.dicts :
          UpdatePost(i, u) =>
              /\ OthersKept(posts, posts', i)
              /\ Cardinality(posts') = Cardinality(posts)
              /\ \A r \in RowOf(posts, i) :
                    \E r2 \in posts' : SameExcept(r, r2, NamedColumns(u))
              /\ u = <<E_Title>> =>
                    /\ ret' = "None"
                    /\ \A r \in RowOf(posts, i) :
                          [r EXCEPT !.title = "New"] \in posts'
              /\ RowOf(posts, i) = {} =>
                    /\ posts' = posts
                    /\ NamesOnlyFields(u) => ret' = "None"]_vars

\* one of two records had its title edited
C5_Witness ==
    /\ ret = "None"
    /\ \E r1, r2 \in posts : r1.title = "New" /\ r2.title = F_Interview.title

\* C6: update_status changes only the status, update_published only the
\* published flag, of the record with the given id and of no other record; for
\* an id that is not stored the store is unchanged; neither raises.
C6_StatusPublishedFrame ==
    [][/\ \A i \in RowIds, s \in WorkflowInputs.statuses :
            UpdateStatus(i, s) =>
                /\ OthersKept(posts, posts', i)
                /\ Cardinality(posts') = Cardinality(posts)
                /\ \A r \in RowOf(posts, i) :
                      \E r2 \in posts' : r2.status = s /\ SameExcept(r, r2, {"status"})
                /\ RowOf(posts, i) = {} => posts' = posts
                /\ ret' = "None"
       /\ \A i \in RowIds, p \in WorkflowInputs.publisheds :
            UpdatePublished(i, p) =>
                /\ OthersKept(posts, posts', i)
                /\ Cardinality(posts') = Cardinality(posts)
                /\ \A r \in RowOf(posts, i) :
                      \E r2 \in posts' :
                          r2.published = p /\ SameExcept(r, r2, {"published"})
                /\ RowOf(posts, i) = {} => posts' = posts
                /\ ret' = "None"]_vars

\* one record was made ready and left unpublished, another was published and
\* left not ready
C6_Witness ==
    \E r1, r2 \in posts :
        /\ r1.status = "Gotov" /\ r1.published = "Net"
        /\ r2.status = "Ne gotov" /\ r2.published = "Da"

\* C7: after delete_post no record has the given id and every record with
\* another id is still there unchanged; for an id that is not stored nothing
\* changes; no error is raised.
C7_DeleteFrame ==
    [][\A i \in RowIds :
          DeletePost(i) =>
              /\ RowOf(posts', i) = {}
              /\ OthersKept(posts, posts', i)
              /\ posts' \subseteq posts
              /\ RowOf(posts, i) = {} => posts' = posts
              /\ ret' = "None"]_vars

\* two records were inserted and exactly one of them was deleted
C7_Witness == seq = 2 /\ Cardinality(posts) = 1 /\ ret = "None"

\* C8: the day of week of every record is the weekday label computed when the
\* record was inserted.
C8_DayOfWeekFrozen == \A r \in posts : r.day_of_week = r.ins.day_of_week

\* C9: between two operations no connection is open.
C9_NoOpenHandles == handles = 0

NewlineCount(s) == Cardinality({k \in DOMAIN s : s[k] = "\n"})

\* at most MaxIdeas lines, none of them empty or blank at either end
IsIdeaLines(s) ==
    /\ s # <<>>
    /\ NewlineCount(s) + 1 <= 5
    /\ ~IsSpace(s[1]) /\ ~IsSpace(s[Len(s)])
    /\ \A k \in DOMAIN s :
          s[k] = "\n" => (~IsSpace(s[k - 1]) /\ ~IsSpace(s[k + 1]))

GeneratedOk ==
    ideas.called =>
        /\ client = "none" => ideas.result = Unavailable
        /\ (client = "hf" /\ ideas.service = "raises") =>
              /\ Len(ideas.result) = Len(ideas.text) + 2
              /\ ideas.result[1] = HfErrorPrefix
              /\ SubSeq(ideas.result, 2, Len(ideas.text) + 1) = ideas.text
        /\ (client = "hf" /\ ideas.service = "returns") => IsIdeaLines(ideas.result)

\* C10: generate_ideas returns the unavailability string without a client, an
\* error-describing string when the remote call raises, and otherwise at most
\* 5 non-empty lines; the store is the same after the call.
C10_GenerateTotal ==
    [][GenerateIdeas => (GeneratedOk' /\ posts' = posts /\ seq' = seq)]_vars

\* a response of seven lines was cut to five
C10_Witness ==
    /\ ideas.called /\ client = "hf" /\ ideas.service = "returns"
    /\ ideas.topic = <<>>
    /\ ideas.text = Flatten([k \in 1..7 |-> <<"a", "\n">>])
    /\ NewlineCount(ideas.result) = 4
    /\ posts = {StoredPost}

=============================================================================
